---- MODULE Spec2Model ----
(***************************************************************************)
(* Model of custom_plugins/netpack_installer/__init__.py: the              *)
(* NetpackInstaller plugin (firmware download, esptool flashing guarded by *)
(* a module-level gevent BoundedSemaphore, and the option-changed          *)
(* handlers).                                                              *)
(*                                                                         *)
(* Scheduling is gevent's: greenlets are cooperative, so a handler runs    *)
(* without interruption until it yields.  flash_firmware yields in         *)
(* gevent.wait (firmware download) and in gevent.subprocess.run (esptool). *)
(* The variable cur names the request whose greenlet holds the CPU (0 when *)
(* the hub is free to start another handler).                              *)
(***************************************************************************)
EXTENDS Integers, Sequences, FiniteSets, TLC

\* ---------------------------------------------------------------- bounds
MaxReq == 3          \* flash_firmware requests issued in one process lifetime
MaxLen == 3          \* length of the release list returned by the release feed

\* ------------------------------------------------------------ value sets
None == "None"                       \* Python's None for option values
Urls == {"u2", "u3"}                 \* browser_download_url values selectable
Ports == {"COM1"}                    \* serial ports
MorePorts == {"COM1", "COM2"}        \* serial ports of a host with two adapters
Tags == {"v1", "v2", "v3"}
ExitCodes == {0, 1}                  \* esptool subprocess return codes
NotRun == -1                         \* no CompletedProcess yet
Reqs == 1..MaxReq

OptionNames == {"_netpack_version", "_netpack_ports", "_netpack_beta"}

MsgNoVersion == "Firmware version not selected"
MsgDownloading == "Downloading firmware"
MsgBusy == "Flashing already in progress"
MsgNoPort == "Port not selected"
MsgFlashing == "Flashing firmware"
MsgFailed == "Netpack flashing failed"
MsgCompleted == "Netpack flashing completed"

\* notifications that report an error to the user
ErrorMsgs == {MsgNoVersion, MsgBusy, MsgNoPort, MsgFailed}

\* ------------------------------------------------------------ releases
UrlOf(tag) == IF tag = "v1" THEN "u1" ELSE IF tag = "v2" THEN "u2" ELSE "u3"

\* one entry of the GitHub releases JSON; every release carries two assets
MkRelease(tag, d, p) ==
    [tag_name |-> tag, draft |-> d, prerelease |-> p,
     assets |-> << [browser_download_url |-> UrlOf(tag)],
                   [browser_download_url |-> "src.zip"] >>]

Releases == {MkRelease(t, d, p) : t \in Tags, d \in BOOLEAN, p \in BOOLEAN}

ReleaseLists == UNION {[1..n -> Releases] : n \in 0..MaxLen}

ExampleReleases ==
    << MkRelease("v1", TRUE, FALSE),
       MkRelease("v2", FALSE, TRUE),
       MkRelease("v3", FALSE, FALSE) >>

\* ------------------------------------------------------------ state
VARIABLES
    lock,            \* _lock: TRUE when the BoundedSemaphore is held
    downloaded,      \* self._downloaded
    firmware,        \* url whose archive self._firmware_folder holds, or None
    binaries,        \* names of the files present in self._firmware_folder
    options,         \* rhapi.db option storage
    versions,        \* self._versions
    versionOptions,  \* options of the registered _netpack_version UIField
    feed,            \* outcome of the release-feed GET, "pending" before it
    installer,       \* "none" before NetpackInstaller(rhapi), then "ready" or "raised"
    cur,             \* request whose greenlet is running, 0 if none
    nreq,            \* number of flash_firmware calls made so far
    pc,              \* position of each flash_firmware call
    notes,           \* messages each call passed to ui.message_notify
    steps,           \* steps each call has performed, in order
    fetches,         \* session.get(url) invocations of each call
    flashes,         \* gevent.subprocess.run invocations of each call
    fetchUrl,        \* url local of _download_firmware, None outside it
    flashPort,       \* port local: the `-p` argument of the running esptool
    returncode,      \* process.returncode of each call, NotRun before esptool exits
    logged,          \* values each call passed to logger.error
    sawActive,       \* history: another call was downloading/flashing on arrival
    noPort,          \* history: no port configured from arrival until now
    changedSince,    \* history: version changed since the last accepted call
    expectFetch,     \* history: call is the first accepted after a version change
    cacheOK,         \* history: a download succeeded and no version change since
    accCached        \* history: cacheOK held when the call was accepted

vars == << lock, downloaded, firmware, binaries, options, versions,
           versionOptions, feed, installer, cur, nreq, pc, notes, steps,
           fetches, flashes, fetchUrl, flashPort, returncode, logged,
           sawActive, noPort, changedSince, expectFetch, cacheOK, accCached >>

\* what __init__ sets once and no handler changes
bootVars == << versions, feed, installer >>

\* positions of a call that holds the gate
Running == {"Acquired", "Downloading", "PortCheck", "Flashing"}
\* positions the claim about mutual exclusion names
Active == {"Downloading", "PortCheck", "Flashing"}
Terminal == {"Rejected", "Success", "PortNotSelected", "FlashFailed", "Raised"}

\* ------------------------------------------------------------ helpers
\* rhapi.db.option(name)
Option(name) == options[name]

\* rhapi.db.option(name, as_int=True)
OptionAsInt(name) == IF options[name] = "1" THEN 1 ELSE 0

\* Python truthiness of an option value: None and "" are falsy
Falsy(v) == v \in {None, ""}

\* _lock.locked()
LockedM(l) == FALSE
Locked(l) == l

\* leaving the `with _lock:` block (return, fall-through or exception)
LockExitM(l) == l
LockExit(l) == FALSE

\* self._rhapi.ui.message_notify(message) by call r
Notify(r, m) == notes' = [notes EXCEPT ![r] = Append(@, m)]

\* event arguments of an OPTION_SET event; NoArgs is a call without arguments
NoArgs == [isNone |-> TRUE, option |-> ""]
Args(o) == [isNone |-> FALSE, option |-> o]

\* generate_options(): the (tag, url) pairs yielded for self._versions
RECURSIVE generate_optionsM(_, _)
generate_optionsM(vs, allow_beta) ==
    IF vs = << >> THEN << >>
    ELSE LET version == Head(vs)
             rest == generate_optionsM(Tail(vs), allow_beta)
         IN  IF version.draft /\ allow_beta = 0 THEN rest
             ELSE IF allow_beta = 0 /\ version.prerelease THEN rest
             ELSE << << version.tag_name,
                        version.assets[1].browser_download_url >> >> \o rest

RECURSIVE generate_options(_, _)
generate_options(vs, allow_beta) ==
    IF vs = << >> THEN << >>
    ELSE LET version == Head(vs)
             rest == generate_options(Tail(vs), allow_beta)
         IN  IF version.draft THEN rest
             ELSE IF allow_beta = 0 /\ version.prerelease THEN rest
             ELSE << << version.tag_name,
                        version.assets[1].browser_download_url >> >> \o rest

\* update_version_list(args): the options of the re-registered UIField
update_version_list(args, old, vs, allow_beta) ==
    IF ~args.isNone /\ args.option # "_netpack_beta" THEN old
    ELSE LET pairs == generate_options(vs, allow_beta)
         IN  [i \in 1..Len(pairs) |->
                 [value |-> pairs[i][2], label |-> pairs[i][1]]]

\* reset_dowload_status(args): the new value of self._downloaded
reset_dowload_statusM(args, d) ==
    IF args.isNone THEN d ELSE FALSE
reset_dowload_statusInv(args, d) ==
    IF args.isNone \/ args.option = "_netpack_version" THEN d ELSE FALSE
reset_dowload_status(args, d) ==
    IF args.isNone \/ args.option # "_netpack_version" THEN d ELSE FALSE

\* process.check_returncode() raises CalledProcessError
check_returncodeM(code) == code > 1
check_returncode(code) == code # 0


\* the three files flash_firmware hands to esptool (lines 83-85)
Required == {"bootloader.bin", "elrs-netpack.bin", "partition-table.bin"}

\* files of the archive a successful fetch returned
ArchiveFiles(result) ==
    IF result = "ok" THEN Required ELSE Required \ {"elrs-netpack.bin"}

\* zip_.extractall(folder): writes the archive's files, removes nothing
extractall(present, result) == present \cup ArchiveFiles(result)

\* process.stdout of gevent.subprocess.run(args): the call passes neither
\* stdout=PIPE nor capture_output, so the child's output out is not captured
run_stdout(out) == None

\* a step appended to the record of call r
Step(r, s) == steps' = [steps EXCEPT ![r] = @ \o s]

\* answers of the release feed to session.get(..., timeout=5)
\*   "error"    session.get raised (connection failure)
\*   "timeout"  session.get raised Timeout after 5 seconds
\*   "ok"       a response whose JSON body is a list of releases
\*   "badjson"  a response whose body data.json() cannot decode
Response(kind, json) == [kind |-> kind, json |-> json]
Responses ==
    {Response(k, << >>) : k \in {"error", "timeout", "badjson"}}
       \cup {Response("ok", l) : l \in ReleaseLists}

\* _get_download_versions() run by gevent.spawn: ver_green.value, which is
\* None when the greenlet died of an exception
get_download_versionsM(resp) ==
    IF resp.kind \in {"error", "timeout", "badjson"}
    THEN [isNone |-> TRUE, value |-> << >>]
    ELSE [isNone |-> FALSE, value |-> resp.json]
get_download_versions(resp) ==
    IF resp.kind \in {"error", "timeout"}
    THEN [isNone |-> FALSE, value |-> << >>]
    ELSE IF resp.kind = "badjson"
    THEN [isNone |-> TRUE, value |-> << >>]
    ELSE [isNone |-> FALSE, value |-> resp.json]

\* ------------------------------------------------------------ Init
IdleState ==
    /\ lock = FALSE
    /\ downloaded = FALSE
    /\ firmware = None
    /\ binaries = {}
    /\ cur = 0
    /\ nreq = 0
    /\ pc = [r \in Reqs |-> "Idle"]
    /\ notes = [r \in Reqs |-> << >>]
    /\ steps = [r \in Reqs |-> << >>]
    /\ fetches = [r \in Reqs |-> 0]
    /\ flashes = [r \in Reqs |-> 0]
    /\ fetchUrl = [r \in Reqs |-> None]
    /\ flashPort = [r \in Reqs |-> None]
    /\ returncode = [r \in Reqs |-> NotRun]
    /\ logged = [r \in Reqs |-> << >>]
    /\ sawActive = [r \in Reqs |-> FALSE]
    /\ noPort = [r \in Reqs |-> FALSE]
    /\ changedSince = FALSE
    /\ expectFetch = [r \in Reqs |-> FALSE]
    /\ cacheOK = FALSE
    /\ accCached = [r \in Reqs |-> FALSE]

\* state after initialize() on a fresh installation: no version and no port
\* stored yet, beta off; __init__ has fetched the releases and called
\* update_version_list() with no arguments
Init ==
    /\ IdleState
    /\ options = [o \in OptionNames |-> IF o = "_netpack_beta" THEN "0" ELSE None]
    /\ feed = "ok"
    /\ installer = "ready"
    /\ versions = ExampleReleases
    /\ versionOptions =
          update_version_list(NoArgs, << >>, versions, OptionAsInt("_netpack_beta"))

\* ------------------------------------------------------------ __init__
\* lines 20-34 as called at line 199: the release feed answers resp, the
\* result becomes self._versions and update_version_list() runs; with
\* self._versions None its loop raises TypeError out of the constructor
Construct(resp) ==
    /\ installer = "none"
    /\ feed' = resp.kind
    /\ LET res == get_download_versions(resp)
       IN  IF res.isNone
           THEN /\ installer' = "raised"
                /\ UNCHANGED << versions, versionOptions >>
           ELSE /\ installer' = "ready"
                /\ versions' = res.value
                /\ versionOptions' =
                      update_version_list(NoArgs, versionOptions, res.value,
                                          OptionAsInt("_netpack_beta"))
    /\ UNCHANGED << lock, downloaded, firmware, binaries, options, cur, nreq,
                    pc, notes, steps, fetches, flashes, fetchUrl, flashPort,
                    returncode, logged, sawActive, noPort, changedSince,
                    expectFetch, cacheOK, accCached >>

\* ------------------------------------------------------------ flash_firmware
\* the greenlet of call r can run: it holds the CPU, or the hub is idle
Ready(r) == cur \in {0, r}

\* who holds the CPU after _lock.locked() returned False: neither locked()
\* nor the acquisition of a free semaphore switches greenlets
AfterCheckM(r) == 0
AfterCheck(r) == r

\* lines 68-71: the gate is held, notify and return
RejectBusyM(r) ==
    /\ cur = 0 /\ r = nreq + 1 /\ pc[r] = "Idle"
    /\ Locked(lock)
    /\ Notify(r, MsgBusy)
    /\ pc' = [pc EXCEPT ![r] = "Rejected"]
    /\ nreq' = r
    /\ lock' = LockExit(lock)
    /\ sawActive' = [sawActive EXCEPT ![r] = \E q \in Reqs : pc[q] \in Active]
    /\ UNCHANGED << downloaded, firmware, binaries, options, bootVars,
                    versionOptions, cur, steps, fetches, flashes, fetchUrl,
                    flashPort, returncode, logged, noPort, changedSince,
                    expectFetch, cacheOK, accCached >>

RejectBusy(r) ==
    /\ cur = 0 /\ r = nreq + 1 /\ pc[r] = "Idle"
    /\ Locked(lock)
    /\ Notify(r, MsgBusy)
    /\ pc' = [pc EXCEPT ![r] = "Rejected"]
    /\ nreq' = r
    /\ sawActive' = [sawActive EXCEPT ![r] = \E q \in Reqs : pc[q] \in Active]
    /\ UNCHANGED << lock, downloaded, firmware, binaries, options, bootVars,
                    versionOptions, cur, steps, fetches, flashes, fetchUrl,
                    flashPort, returncode, logged, noPort, changedSince,
                    expectFetch, cacheOK, accCached >>

\* line 68: the gate is free, the call passes the busy check
PassCheck(r) ==
    /\ cur = 0 /\ r = nreq + 1 /\ pc[r] = "Idle"
    /\ ~Locked(lock)
    /\ pc' = [pc EXCEPT ![r] = "Checked"]
    /\ cur' = AfterCheck(r)
    /\ nreq' = r
    /\ sawActive' = [sawActive EXCEPT ![r] = \E q \in Reqs : pc[q] \in Active]
    /\ UNCHANGED << lock, downloaded, firmware, binaries, options, bootVars,
                    versionOptions, notes, steps, fetches, flashes, fetchUrl,
                    flashPort, returncode, logged, noPort, changedSince,
                    expectFetch, cacheOK, accCached >>

\* line 73: `with _lock:` acquires the semaphore, or blocks when it is held
Acquire(r) ==
    /\ Ready(r) /\ pc[r] = "Checked"
    /\ IF lock
       THEN /\ pc' = [pc EXCEPT ![r] = "Waiting"]
            /\ cur' = 0
            /\ UNCHANGED << lock, steps, noPort, expectFetch, changedSince,
                            accCached >>
       ELSE /\ lock' = TRUE
            /\ pc' = [pc EXCEPT ![r] = "Acquired"]
            /\ cur' = r
            /\ Step(r, << "acquire" >>)
            /\ noPort' = [noPort EXCEPT ![r] = Falsy(Option("_netpack_ports"))]
            /\ expectFetch' = [expectFetch EXCEPT ![r] = changedSince]
            /\ changedSince' = FALSE
            /\ accCached' = [accCached EXCEPT ![r] = cacheOK]
    /\ UNCHANGED << downloaded, firmware, binaries, options, bootVars,
                    versionOptions, nreq, notes, fetches, flashes, fetchUrl,
                    flashPort, returncode, logged, sawActive, cacheOK >>

\* lines 75-76 and 48-60: skip the download on a cache hit, else run
\* _download_firmware up to its gevent.wait
StartDownload(r) ==
    /\ Ready(r) /\ pc[r] = "Acquired"
    /\ IF downloaded
       THEN /\ pc' = [pc EXCEPT ![r] = "PortCheck"]
            /\ cur' = r
            /\ UNCHANGED << notes, steps, fetches, fetchUrl >>
       ELSE LET url == Option("_netpack_version")
            IN  IF url = None
                THEN /\ Notify(r, MsgNoVersion)
                     /\ Step(r, << "download", "downloaded" >>)
                     /\ pc' = [pc EXCEPT ![r] = "PortCheck"]
                     /\ cur' = r
                     /\ UNCHANGED << fetches, fetchUrl >>
                ELSE /\ Notify(r, MsgDownloading)
                     /\ Step(r, << "download" >>)
                     /\ fetches' = [fetches EXCEPT ![r] = @ + 1]
                     /\ fetchUrl' = [fetchUrl EXCEPT ![r] = url]
                     /\ pc' = [pc EXCEPT ![r] = "Downloading"]
                     /\ cur' = 0
    /\ UNCHANGED << lock, downloaded, firmware, binaries, options, bootVars,
                    versionOptions, nreq, flashes, flashPort, returncode,
                    logged, sawActive, noPort, changedSince, expectFetch,
                    cacheOK, accCached >>

\* lines 60-65: gevent.wait returns; result is what the fetch produced
\*   "ok"         a response holding a zip archive with the three binaries
\*   "transport"  session.get raised in its greenlet, data_green.value is None
\*   "badzip"     a response whose content ZipFile cannot read
\*   "incomplete" a response holding a zip archive without elrs-netpack.bin
DownloadResults == {"ok", "transport", "badzip"}
ArchiveResults == DownloadResults \cup {"incomplete"}
Extracted == {"ok", "incomplete"}

\* self._downloaded when _download_firmware is left: line 65 runs only after
\* the fetch and the extraction went through
download_flagM(result, d) == IF result # "transport" THEN TRUE ELSE d
download_flag(result, d) == IF result \in Extracted THEN TRUE ELSE d

FinishDownload(r, result) ==
    /\ cur = 0 /\ pc[r] = "Downloading"
    /\ downloaded' = download_flag(result, downloaded)
    /\ IF result \in Extracted
       THEN /\ firmware' = fetchUrl[r]
            /\ binaries' = extractall(binaries, result)
            /\ cacheOK' = TRUE
            /\ pc' = [pc EXCEPT ![r] = "PortCheck"]
            /\ cur' = r
            /\ Step(r, << "downloaded" >>)
            /\ UNCHANGED lock
       ELSE \* AttributeError / BadZipFile leaves _download_firmware,
            \* the with block and flash_firmware
            /\ lock' = LockExit(lock)
            /\ pc' = [pc EXCEPT ![r] = "Raised"]
            /\ Step(r, << "release" >>)
            /\ UNCHANGED << firmware, binaries, cacheOK, cur >>
    /\ fetchUrl' = [fetchUrl EXCEPT ![r] = None]   \* the local dies with the call
    /\ UNCHANGED << options, bootVars, versionOptions, nreq, notes, fetches,
                    flashes, flashPort, returncode, logged, sawActive, noPort,
                    changedSince, expectFetch, accCached >>

\* the `-p` argument of the esptool command line (line 96)
PortArgM(port) == "COM1"
PortArg(port) == port

\* lines 78-90: the port check, then esptool is started
PortCheckM(r) ==
    /\ Ready(r) /\ pc[r] = "PortCheck"
    /\ LET port == Option("_netpack_ports")
       IN  IF Falsy(port)
           THEN /\ notes' = [notes EXCEPT ![r] = @ \o << MsgNoPort, MsgFlashing >>]
                /\ Step(r, << "port_missing", "flash" >>)
           ELSE /\ Notify(r, MsgFlashing)
                /\ Step(r, << "port_ok", "flash" >>)
    /\ flashes' = [flashes EXCEPT ![r] = @ + 1]
    /\ flashPort' = [flashPort EXCEPT ![r] = PortArg(Option("_netpack_ports"))]
    /\ pc' = [pc EXCEPT ![r] = "Flashing"]
    /\ cur' = 0
    /\ UNCHANGED << lock, downloaded, firmware, binaries, options, bootVars,
                    versionOptions, nreq, fetches, fetchUrl, returncode,
                    logged, sawActive, noPort, changedSince, expectFetch,
                    cacheOK, accCached >>

PortCheck(r) ==
    /\ Ready(r) /\ pc[r] = "PortCheck"
    /\ LET port == Option("_netpack_ports")
       IN  IF Falsy(port)
           THEN /\ Notify(r, MsgNoPort)
                /\ Step(r, << "port_missing", "release" >>)
                /\ lock' = LockExit(lock)
                /\ pc' = [pc EXCEPT ![r] = "PortNotSelected"]
                /\ UNCHANGED << flashes, flashPort >>
           ELSE /\ Notify(r, MsgFlashing)
                /\ Step(r, << "port_ok", "flash" >>)
                /\ flashes' = [flashes EXCEPT ![r] = @ + 1]
                /\ flashPort' = [flashPort EXCEPT ![r] = PortArg(port)]
                /\ pc' = [pc EXCEPT ![r] = "Flashing"]
                /\ UNCHANGED lock
    /\ cur' = 0
    /\ UNCHANGED << downloaded, firmware, binaries, options, bootVars,
                    versionOptions, nreq, fetches, fetchUrl, returncode,
                    logged, sawActive, noPort, changedSince, expectFetch,
                    cacheOK, accCached >>

\* text esptool writes to its standard output and error
Outputs == {"flash timeout"}

\* lines 90, 121-129: esptool exits with returncode code after writing out
FinishFlashM(r, code, out) ==
    /\ cur = 0 /\ pc[r] = "Flashing"
    /\ IF check_returncode(code)
       THEN /\ Notify(r, MsgFailed)
            /\ logged' = [logged EXCEPT ![r] = Append(@, run_stdout(out))]
            /\ pc' = [pc EXCEPT ![r] = "PortCheck"]
            /\ cur' = r
            /\ UNCHANGED << lock, steps >>
       ELSE /\ Notify(r, MsgCompleted)
            /\ pc' = [pc EXCEPT ![r] = "Success"]
            /\ lock' = LockExit(lock)
            /\ Step(r, << "release" >>)
            /\ UNCHANGED << logged, cur >>
    /\ returncode' = [returncode EXCEPT ![r] = code]
    /\ UNCHANGED << downloaded, firmware, binaries, options, bootVars,
                    versionOptions, nreq, fetches, flashes, fetchUrl,
                    flashPort, sawActive, noPort, changedSince, expectFetch,
                    cacheOK, accCached >>

FinishFlash(r, code, out) ==
    /\ cur = 0 /\ pc[r] = "Flashing"
    /\ IF check_returncode(code)
       THEN /\ Notify(r, MsgFailed)
            /\ logged' = [logged EXCEPT ![r] = Append(@, run_stdout(out))]
            /\ pc' = [pc EXCEPT ![r] = "FlashFailed"]
       ELSE /\ Notify(r, MsgCompleted)
            /\ pc' = [pc EXCEPT ![r] = "Success"]
            /\ UNCHANGED logged
    /\ returncode' = [returncode EXCEPT ![r] = code]
    /\ lock' = LockExit(lock)
    /\ Step(r, << "release" >>)
    /\ flashPort' = [flashPort EXCEPT ![r] = None]   \* the local dies with the call
    /\ UNCHANGED << downloaded, firmware, binaries, options, bootVars,
                    versionOptions, cur, nreq, fetches, flashes, fetchUrl,
                    sawActive, noPort, changedSince, expectFetch, cacheOK,
                    accCached >>

\* ------------------------------------------------------------ option events
\* values the settings panel can store for an option
OptionValues(o) ==
    IF o = "_netpack_version" THEN Urls
    ELSE IF o = "_netpack_ports" THEN Ports \cup {""}
    ELSE {"0", "1"}

\* the host stores option o and fires Evt.OPTION_SET; both registered
\* handlers (lines 216-222) run on the event
OptionSet(o, v) ==
    /\ cur = 0
    /\ installer = "ready"
    /\ options' = [options EXCEPT ![o] = v]
    /\ versionOptions' =
          update_version_list(Args(o), versionOptions, versions,
                              IF options'["_netpack_beta"] = "1" THEN 1 ELSE 0)
    /\ downloaded' = reset_dowload_status(Args(o), downloaded)
    /\ changedSince' = IF o = "_netpack_version" THEN TRUE ELSE changedSince
    /\ cacheOK' = IF o = "_netpack_version" THEN FALSE ELSE cacheOK
    /\ noPort' = [r \in Reqs |->
                    noPort[r] /\ (pc[r] \in Terminal \/ Falsy(options'["_netpack_ports"]))]
    /\ UNCHANGED << lock, firmware, binaries, bootVars, cur, nreq, pc, notes,
                    steps, fetches, flashes, fetchUrl, flashPort, returncode,
                    logged, sawActive, expectFetch, accCached >>

\* ------------------------------------------------------------ specifications
Next ==
    \/ \E r \in Reqs : RejectBusy(r)
    \/ \E r \in Reqs : PassCheck(r)
    \/ \E r \in Reqs : Acquire(r)
    \/ \E r \in Reqs : StartDownload(r)
    \/ \E r \in Reqs, result \in DownloadResults : FinishDownload(r, result)
    \/ \E r \in Reqs : PortCheck(r)
    \/ \E r \in Reqs, code \in ExitCodes, out \in Outputs : FinishFlash(r, code, out)
    \/ \E o \in OptionNames : \E v \in OptionValues(o) : OptionSet(o, v)

Spec == Init /\ [][Next]_vars

\* the steps of an accepted call; the firmware fetch and esptool are assumed
\* to return, and a greenlet that can run is eventually run
Progress ==
    \/ \E r \in Reqs : Acquire(r)
    \/ \E r \in Reqs : StartDownload(r)
    \/ \E r \in Reqs, result \in DownloadResults : FinishDownload(r, result)
    \/ \E r \in Reqs : PortCheck(r)
    \/ \E r \in Reqs, code \in ExitCodes, out \in Outputs : FinishFlash(r, code, out)

\* the same program with one firmware version and one port to choose, and
\* fetches that either succeed or fail in transport
NextLive ==
    \/ \E r \in Reqs : RejectBusy(r)
    \/ \E r \in Reqs : PassCheck(r)
    \/ \E r \in Reqs : Acquire(r)
    \/ \E r \in Reqs : StartDownload(r)
    \/ \E r \in Reqs, result \in {"ok", "transport"} : FinishDownload(r, result)
    \/ \E r \in Reqs : PortCheck(r)
    \/ \E r \in Reqs, code \in ExitCodes, out \in Outputs : FinishFlash(r, code, out)
    \/ \E v \in Ports \cup {""} : OptionSet("_netpack_ports", v)
    \/ OptionSet("_netpack_version", "u2")

SpecLive == Init /\ [][NextLive]_vars /\ WF_vars(Progress)

\* the same program when the firmware archives may lack a binary
NextFiles ==
    \/ \E r \in Reqs : RejectBusy(r)
    \/ \E r \in Reqs : PassCheck(r)
    \/ \E r \in Reqs : Acquire(r)
    \/ \E r \in Reqs : StartDownload(r)
    \/ \E r \in Reqs, result \in ArchiveResults : FinishDownload(r, result)
    \/ \E r \in Reqs : PortCheck(r)
    \/ \E r \in Reqs, code \in ExitCodes, out \in Outputs : FinishFlash(r, code, out)
    \/ \E o \in OptionNames : \E v \in OptionValues(o) : OptionSet(o, v)

SpecFiles == Init /\ [][NextFiles]_vars

\* the same program on a host with two serial ports and one firmware version
NextPorts ==
    \/ \E r \in Reqs : RejectBusy(r)
    \/ \E r \in Reqs : PassCheck(r)
    \/ \E r \in Reqs : Acquire(r)
    \/ \E r \in Reqs : StartDownload(r)
    \/ \E r \in Reqs, result \in DownloadResults : FinishDownload(r, result)
    \/ \E r \in Reqs : PortCheck(r)
    \/ \E r \in Reqs, code \in ExitCodes, out \in Outputs : FinishFlash(r, code, out)
    \/ \E v \in MorePorts \cup {""} : OptionSet("_netpack_ports", v)
    \/ OptionSet("_netpack_version", "u2")

SpecPorts == Init /\ [][NextPorts]_vars

\* the installer right after construction, for every release list the feed
\* can return, driven by option events only
InitList ==
    /\ IdleState
    /\ \E b \in {"0", "1"} :
          options = [o \in OptionNames |->
                       IF o = "_netpack_beta" THEN b ELSE None]
    /\ feed = "ok"
    /\ installer = "ready"
    /\ versions \in ReleaseLists
    /\ versionOptions =
          update_version_list(NoArgs, << >>, versions, OptionAsInt("_netpack_beta"))

NextList ==
    \E o \in OptionNames : \E v \in OptionValues(o) : OptionSet(o, v)

SpecList == InitList /\ [][NextList]_vars

\* initialize() from the moment before NetpackInstaller(rhapi) is built
InitBoot ==
    /\ IdleState
    /\ \E b \in {"0", "1"} :
          options = [o \in OptionNames |->
                       IF o = "_netpack_beta" THEN b ELSE None]
    /\ feed = "pending"
    /\ installer = "none"
    /\ versions = << >>
    /\ versionOptions = << >>

NextBoot ==
    \/ installer = "none" /\ \E resp \in Responses : Construct(resp)
    \/ \E o \in OptionNames : \E v \in OptionValues(o) : OptionSet(o, v)

SpecBoot == InitBoot /\ [][NextBoot]_vars

\* ------------------------------------------------------------ properties
ErrorNotes(r) == {i \in DOMAIN notes[r] : notes[r][i] \in ErrorMsgs}
Notified(r, m) == \E i \in DOMAIN notes[r] : notes[r][i] = m
LastNote(r) == notes[r][Len(notes[r])]

\* C1: at most one flash_firmware call is in Downloading, PortCheck or
\* Flashing at any time, and every call that arrives while another call is
\* in one of those positions is rejected with the single notification
\* 'Flashing already in progress'.
C1_MutualExclusion ==
    /\ Cardinality({r \in Reqs : pc[r] \in Active}) <= 1
    /\ \A r \in Reqs :
          sawActive[r] => pc[r] = "Rejected" /\ notes[r] = << MsgBusy >>

\* two calls were rejected while a third is still flashing
C1_Witness ==
    \E q \in Reqs :
       /\ pc[q] = "Flashing"
       /\ Cardinality({r \in Reqs : sawActive[r] /\ pc[r] = "Rejected"}) >= 2

\* C2: the gate is held if and only if exactly one call is between
\* acquisition and its terminal position; so it is free after success,
\* port-not-selected, flash failure and an exception of the download step.
C2_GateHeldIffRunning ==
    /\ lock <=> Cardinality({r \in Reqs : pc[r] \in Running}) = 1
    /\ Cardinality({r \in Reqs : pc[r] \in Running}) <= 1

\* a download step raised, and a later call was accepted and ended too
C2_Witness ==
    \E q, r \in Reqs :
       /\ q < r
       /\ pc[q] = "Raised"
       /\ pc[r] \in {"Success", "PortNotSelected", "FlashFailed"}
       /\ ~lock

\* C3: a call rejected as busy changes nothing but its own notifications:
\* no fetch, no subprocess, downloaded flag, gate and firmware folder
\* untouched, every other call's position and notifications unchanged.
C3_RejectedDoesNoWork ==
    [][\A r \in Reqs :
          (pc[r] = "Idle" /\ pc'[r] = "Rejected") =>
             /\ UNCHANGED << lock, downloaded, firmware, fetches, flashes,
                             fetchUrl, returncode, cur, options >>
             /\ notes'[r] = << MsgBusy >>
             /\ \A q \in Reqs \ {r} : pc'[q] = pc[q] /\ notes'[q] = notes[q]]_vars

\* a call was rejected and the call in flight at that time went on to succeed
C3_Witness ==
    \E q, r \in Reqs :
       /\ q < r
       /\ sawActive[r] /\ pc[r] = "Rejected"
       /\ pc[q] = "Success"

\* C4: a call made while no port is configured (and none is configured
\* while it runs) ends with 'Port not selected' and never starts esptool,
\* whatever the download step did.
C4_NoPortAlwaysPortNotSelected ==
    \A r \in Reqs :
       (noPort[r] /\ pc[r] \in Terminal \ {"Rejected"}) =>
          /\ pc[r] = "PortNotSelected"
          /\ LastNote(r) = MsgNoPort
          /\ flashes[r] = 0

\* C5: the first call accepted after a change of _netpack_version fetches
\* before it flashes.
C5_FetchAfterVersionChange ==
    \A r \in Reqs :
       (expectFetch[r] /\ pc[r] \in {"Flashing", "Success", "FlashFailed"}) =>
          fetches[r] >= 1

\* C6: once a download step has succeeded and no _netpack_version event has
\* occurred since, the downloaded flag is set and every call accepted in
\* that period performs no fetch.
C6_CacheHitSkipsFetch ==
    /\ cacheOK => downloaded
    /\ \A r \in Reqs : accCached[r] => fetches[r] = 0

\* after an earlier call downloaded and ended without flashing successfully,
\* a later call flashes without fetching
C6_Witness ==
    \E q, r \in Reqs :
       /\ q < r
       /\ fetches[q] = 1 /\ pc[q] \in {"PortNotSelected", "FlashFailed"}
       /\ accCached[r] /\ flashes[r] = 1 /\ fetches[r] = 0

\* C7: a call that finds no version selected ends with 'Firmware version
\* not selected' as its only notification and never starts esptool.
C7_NoVersionIsTerminal ==
    \A r \in Reqs :
       Notified(r, MsgNoVersion) =>
          /\ flashes[r] = 0
          /\ notes[r] = << MsgNoVersion >>

\* C8: once esptool has exited, a non-zero return code gives 'Netpack
\* flashing failed' as the final notification and never 'Netpack flashing
\* completed'; return code 0 gives the converse.
C8_ExitCodeDecidesNotification ==
    \A r \in Reqs :
       returncode[r] # NotRun =>
          IF returncode[r] # 0
          THEN /\ pc[r] = "FlashFailed"
               /\ LastNote(r) = MsgFailed
               /\ ~Notified(r, MsgCompleted)
          ELSE /\ pc[r] = "Success"
               /\ LastNote(r) = MsgCompleted
               /\ ~Notified(r, MsgFailed)

\* esptool exited with code 1 in one call and with code 0 in another
C8_Witness ==
    \E q, r \in Reqs :
       /\ returncode[q] = 1 /\ pc[q] = "FlashFailed"
       /\ returncode[r] = 0 /\ pc[r] = "Success"

\* the releases the selectable list must keep, in input order
Selectable(v) ==
    /\ ~v.draft
    /\ (Option("_netpack_beta") = "1" \/ ~v.prerelease)

\* C9: the selectable version list is exactly the input-order subsequence
\* of (tag, first-asset url) pairs of the releases that are not drafts and,
\* with beta disabled, not prereleases; for [v1 draft, v2 prerelease, v3]
\* it is [v3] with beta disabled and [v2, v3] with beta enabled.
C9_VersionListIsFilteredSubsequence ==
    LET kept == SelectSeq(versions, Selectable)
    IN  /\ Len(versionOptions) = Len(kept)
        /\ \A i \in 1..Len(kept) :
              /\ versionOptions[i].label = kept[i].tag_name
              /\ versionOptions[i].value = kept[i].assets[1].browser_download_url
        /\ versions = ExampleReleases =>
              IF Option("_netpack_beta") = "1"
              THEN versionOptions = << [value |-> "u2", label |-> "v2"],
                                       [value |-> "u3", label |-> "v3"] >>
              ELSE versionOptions = << [value |-> "u3", label |-> "v3"] >>

\* the example list after beta was enabled and a version was picked from it
C9_Witness ==
    /\ versions = ExampleReleases
    /\ Option("_netpack_beta") = "1"
    /\ Option("_netpack_version") = "u2"
    /\ Len(versionOptions) = 2

\* C10: every call that ended in failure sent exactly one error
\* notification and returned normally (no exception left flash_firmware).
C10_OneErrorNotificationNoRaise ==
    \A r \in Reqs :
       pc[r] \in Terminal \ {"Success"} =>
          /\ pc[r] # "Raised"
          /\ Cardinality(ErrorNotes(r)) = 1


\* C11: when the release-feed GET fails or times out, the installer is
\* still constructed, with an empty release list and an empty selectable
\* version list (also after later option events).
C11_FeedFailureGivesEmptyList ==
    feed \in {"error", "timeout"} =>
       /\ installer = "ready"
       /\ versions = << >>
       /\ versionOptions = << >>

\* the feed timed out, the installer was built, and beta was switched on later
C11_Witness ==
    /\ feed = "timeout"
    /\ installer = "ready"
    /\ Option("_netpack_beta") = "1"
    /\ Option("_netpack_ports") = "COM1"
    /\ versionOptions = << >>

\* C12: while the firmware folder lacks one of the three required binaries,
\* esptool is never running (the flash step fails before starting it).
C12_MissingBinaryStopsBeforeSubprocess ==
    \A r \in Reqs :
       Cardinality(Required \ binaries) = 1 => pc[r] # "Flashing"

IsPrefix(s, t) == Len(s) <= Len(t) /\ SubSeq(t, 1, Len(s)) = s

\* the complete step sequences of an accepted call
StepOrders ==
    {<< "acquire" >> \o d \o p :
        d \in {<< >>, << "download", "downloaded" >>},
        p \in {<< "port_ok", "flash", "release" >>,
               << "port_missing", "release" >>}}
       \cup {<< "acquire", "download", "release" >>}

\* C13: the steps of every accepted call follow the order gate acquisition,
\* download step (never on a call accepted with a valid cache), port check,
\* esptool, gate release: the port check comes after the end of the
\* download step and esptool is started only after the port check passed.
C13_StepOrder ==
    \A r \in Reqs :
       /\ \E t \in StepOrders : IsPrefix(steps[r], t)
       /\ pc[r] \in Terminal \ {"Rejected"} => steps[r] \in StepOrders
       /\ pc[r] = "Rejected" => steps[r] = << >>
       /\ accCached[r] => \A i \in DOMAIN steps[r] : steps[r][i] # "download"
       /\ flashes[r] = Cardinality({i \in DOMAIN steps[r] : steps[r][i] = "flash"})

\* a call went through every step, another skipped the download and stopped
\* at the port check
C13_Witness ==
    \E q, r \in Reqs :
       /\ steps[q] = << "acquire", "download", "downloaded", "port_ok",
                        "flash", "release" >>
       /\ steps[r] = << "acquire", "port_missing", "release" >>

\* C14: no call ever waits on the gate: a call that passed the busy check
\* still holds the CPU and finds the gate free when it acquires it.
C14_NoWaitingOnGate ==
    \A r \in Reqs :
       /\ pc[r] # "Waiting"
       /\ pc[r] = "Checked" => cur = r /\ ~lock

\* a call has passed the busy check after an earlier call was rejected
C14_Witness ==
    \E q, r \in Reqs :
       /\ q < r
       /\ pc[q] = "Rejected"
       /\ pc[r] = "Checked"

\* C15: the downloaded flag rises only in the step that ends a download
\* whose fetch and extraction succeeded; a download step that ends on a
\* failed fetch or extraction, or on a missing version, leaves it false;
\* and a call accepted while it is false runs the download step.
C15_FlagOnlyAfterSuccessfulDownload ==
    [][/\ (~downloaded /\ downloaded') =>
             \E r \in Reqs : pc[r] = "Downloading" /\ pc'[r] = "PortCheck"
       /\ \A r \in Reqs :
             /\ (pc[r] = "Downloading" /\ pc'[r] = "Raised") => ~downloaded'
             /\ (pc[r] = "Acquired" /\ ~downloaded) =>
                   /\ steps'[r] = steps[r] \o << "download" >>
                      \/ steps'[r] = steps[r] \o << "download", "downloaded" >>
                   /\ ~downloaded']_vars

\* a download failed, the flag is false and the next call is downloading again
C15_Witness ==
    \E q, r \in Reqs :
       /\ q < r
       /\ pc[q] = "Raised"
       /\ pc[r] = "Downloading" /\ fetches[r] = 1
       /\ ~downloaded


\* C16: if the firmware fetch and esptool always return, every accepted
\* call eventually reaches a terminal position and the gate eventually
\* becomes free; and a call is rejected as busy only while the gate is held.
C16_EventuallyTerminalAndFree ==
    /\ \A r \in Reqs : (pc[r] \in Running) ~> (pc[r] \in Terminal \ {"Rejected"})
    /\ lock ~> ~lock
    /\ [][\A r \in Reqs : (pc[r] = "Idle" /\ pc'[r] = "Rejected") => lock]_vars

\* an accepted call has ended and a later call holds the gate
C16_Witness ==
    \E q, r \in Reqs :
       /\ q < r
       /\ pc[q] \in Terminal \ {"Rejected"}
       /\ pc[r] = "Acquired"
       /\ lock

\* C17: an option-changed event clears the downloaded flag if and only if
\* the option is _netpack_version; an event for another option, or a call
\* of the handler without arguments, leaves the flag as it is; no
\* option-changed event changes the gate.
C17_ResetOnlyOnVersionEvent ==
    [][/\ \A o \in OptionNames : \A v \in OptionValues(o) :
             OptionSet(o, v) =>
                /\ lock' = lock
                /\ o = "_netpack_version" => ~downloaded'
                /\ o # "_netpack_version" => downloaded' = downloaded
       /\ reset_dowload_status(NoArgs, downloaded) = downloaded]_vars

\* the port option was cleared after a call downloaded and started esptool:
\* the flag is still set and the gate still held
C17_Witness ==
    \E r \in Reqs :
       /\ pc[r] = "Flashing" /\ fetches[r] = 1
       /\ Option("_netpack_ports") = ""
       /\ downloaded
       /\ lock

\* C18: a call fetches the firmware at most once and starts esptool at most
\* once, whatever their outcomes.
C18_NoRetries ==
    \A r \in Reqs : fetches[r] <= 1 /\ flashes[r] <= 1

\* a call fetched once, flashed once, esptool failed, and the call ended
C18_Witness ==
    \E r \in Reqs :
       /\ pc[r] = "FlashFailed" /\ returncode[r] = 1
       /\ fetches[r] = 1 /\ flashes[r] = 1

\* C19: after a non-zero exit of esptool the call has logged, at error
\* severity, exactly the output text esptool produced.
C19_LogsSubprocessOutput ==
    \A r \in Reqs :
       returncode[r] \notin {NotRun, 0} =>
          /\ Len(logged[r]) = 1
          /\ logged[r][1] \in Outputs

\* C20: the port given to esptool is the value of _netpack_ports at the
\* port check, is not read before the port check, and stays the same
\* while esptool runs, whatever option events occur.
C20_PortReadAtPortCheck ==
    [][\A r \in Reqs :
          /\ (pc[r] = "PortCheck" /\ pc'[r] = "Flashing") =>
                /\ flashPort'[r] = Option("_netpack_ports")
                /\ UNCHANGED options
          /\ (pc[r] = "Flashing" /\ pc'[r] = "Flashing") =>
                flashPort'[r] = flashPort[r]
          /\ pc[r] \in {"Idle", "Checked", "Acquired", "Downloading", "PortCheck"} =>
                flashPort[r] = None]_vars

\* a call that downloaded is flashing COM2 while the option now says COM1
C20_Witness ==
    \E r \in Reqs :
       /\ pc[r] = "Flashing" /\ fetches[r] = 1
       /\ flashPort[r] = "COM2"
       /\ Option("_netpack_ports") = "COM1"

====
